---------------------------- MODULE Spec2Model ----------------------------
(***************************************************************************)
(* Model of the clip-provenance service (src/services/clip-provenance):    *)
(* the Flask handlers /embed, /audit and /index of server.py and the       *)
(* Database methods of database.py they call.                              *)
(*                                                                         *)
(* Floating-point numbers are fixed-point integers: the integer Scale      *)
(* stands for the float 1.0, and every arithmetic result is rounded to     *)
(* the nearest unit, so that rounding drift (a cosine similarity slightly  *)
(* above or below 1.0 for identical vectors) occurs as it does in floats.  *)
(***************************************************************************)
EXTENDS Integers, Sequences, FiniteSets, TLC

(***************************************************************************)
(* Bounds and constants                                                    *)
(***************************************************************************)
\* The fixed-point representation of the float literal 1.0.
Scale == 100

\* matches = sims[:5]
TopK == 5

\* Cap on the length of the module-level list `known` (it grows without
\* bound in the program).
MaxKnown == 1

\* Largest number of rows in a corpus that is already persisted when the
\* service starts (SpecCorpus).
MaxCorpus == 6

\* Cap on the clock of the model version manager (time has no end in the
\* program).
MaxClock == 7

\* Cap on the number of rows of dao_votes (the table grows without bound in
\* the program).
MaxVotes == 3

\* Cap on script_id_counter of the voice-voting service (it grows without
\* bound in the program).
MaxScripts == 2

\* voice-voting: if script.votes >= 10
ApprovalThreshold == 10

(***************************************************************************)
(* Fixed-point arithmetic                                                  *)
(***************************************************************************)
Abs(n) == IF n < 0 THEN -n ELSE n

Min(a, b) == IF b < a THEN b ELSE a

\* a / b rounded to the nearest integer (half away from zero), b > 0.
RoundDiv(a, b) ==
    LET q == (2 * Abs(a) + b) \div (2 * b)
    IN  IF a < 0 THEN -q ELSE q

RECURSIVE FloorSqrt(_, _, _)
\* The largest r in lo..hi with r * r <= n, by bisection (lo * lo <= n).
FloorSqrt(n, lo, hi) ==
    IF lo = hi THEN lo
    ELSE LET mid == (lo + hi + 1) \div 2
         IN  IF mid * mid <= n THEN FloorSqrt(n, mid, hi)
                               ELSE FloorSqrt(n, lo, mid - 1)

\* The square root of n rounded to the nearest integer.
RoundSqrt(n) ==
    LET r == FloorSqrt(n, 0, n)
    IN  IF 4 * n >= (2 * r + 1) * (2 * r + 1) THEN r + 1 ELSE r

RECURSIVE SumSq(_)
\* The sum of the squares of the components.
SumSq(v) == IF v = <<>> THEN 0 ELSE v[1] * v[1] + SumSq(Tail(v))

RECURSIVE Dot(_, _)
\* The sum of the componentwise products of two vectors of equal length.
Dot(a, b) == IF a = <<>> THEN 0 ELSE a[1] * b[1] + Dot(Tail(a), Tail(b))

RECURSIVE MulDiv(_, _, _)
\* Every component times num, divided by den and rounded.
MulDiv(v, num, den) ==
    IF v = <<>> THEN <<>>
    ELSE <<RoundDiv(v[1] * num, den)>> \o MulDiv(Tail(v), num, den)

\* The L2 norm of a fixed-point vector, in fixed-point.
Norm(v) == RoundSqrt(SumSq(v))

(***************************************************************************)
(* The embedding collaborator: embed(path)                                 *)
(***************************************************************************)
\* A path is <<directory, file name>>.
GoodPaths == {<<"img", "x">>, <<"img", "y">>, <<"img", "d">>,
              <<"img", "e">>, <<"img", "n">>}

\* A path that is not an image file: Image.open raises.
BadPath == <<"img", "missing">>

Paths == GoodPaths \cup {BadPath}

\* os.path.basename
Basename(path) == path[2]

\* The image features the CLIP model computes (get_image_features), before
\* normalisation, as whole numbers.
Feats(path) ==
    CASE path = <<"img", "x">> -> <<1, 0>>
      [] path = <<"img", "y">> -> <<0, 1>>
      [] path = <<"img", "d">> -> <<1, 1>>
      [] path = <<"img", "e">> -> <<1, 2>>
      [] path = <<"img", "n">> -> <<-1, 0>>

\* feats / feats.norm(p=2, dim=-1, keepdim=True), as a flat list.
Normalize(feats) ==
    LET fx == MulDiv(feats, Scale, 1)
    IN  MulDiv(fx, Scale, Norm(fx))

EmbedTable == [path \in GoodPaths |-> Normalize(Feats(path))] @@ <<>>

embed(path) == EmbedTable[path]

\* Whether embed(path) returns (TRUE) or raises (FALSE).
EmbedOk(path) == path \in GoodPaths


(***************************************************************************)
(* similarity(a, b) == torch.cosine_similarity(a, b).item()                *)
(***************************************************************************)
\* Vectors handed to Database.store_embedding by callers other than the
\* handlers of server.py: empty, of one component, of three components.
ForeignVectors == {<<>>, <<Scale>>, <<Scale, 0, 0>>}

Vectors == {EmbedTable[p] : p \in GoodPaths} \cup ForeignVectors

\* torch broadcasting along the feature axis: equal sizes, or one of them 1.
Broadcastable(a, b) == Len(a) = Len(b) \/ Len(a) = 1 \/ Len(b) = 1

RECURSIVE Repeat(_, _)
Repeat(c, n) == IF n = 0 THEN <<>> ELSE <<c>> \o Repeat(c, n - 1)

Expand(v, n) == IF Len(v) = n THEN v ELSE Repeat(v[1], n)

\* norm.clamp_min(eps), then x / norm
UnitOf(x) ==
    LET n == Norm(x)
    IN  MulDiv(x, Scale, IF n < 1 THEN 1 ELSE n)

\* ((x1 / x1_norm) * (x2 / x2_norm)).sum(dim), for broadcastable a and b
\* (their common size is the size that is not 1).
CosineSimilarity(a, b) ==
    LET n == IF Len(a) = 1 THEN Len(b) ELSE Len(a)
    IN  RoundDiv(Dot(UnitOf(Expand(a, n)), UnitOf(Expand(b, n))), Scale)

\* The similarity of every pair of vectors, tabulated once (@@ yields an
\* explicit function, so that an application is a lookup).
SimTable ==
    [a \in Vectors, b \in Vectors |->
        IF Broadcastable(a, b)
        THEN [ok |-> TRUE, val |-> CosineSimilarity(a, b)]
        ELSE [ok |-> FALSE, val |-> 0]] @@ <<>>

\* ok = FALSE: torch raises RuntimeError (sizes do not match).
similarity(a, b) == SimTable[a, b]

(***************************************************************************)
(* State                                                                   *)
(***************************************************************************)
VARIABLES
    clip_embeddings,  \* table clip_embeddings: a set of rows
    render_jobs,      \* table render_jobs: a set of rows
    known,            \* server.py's module-level list [(id, embedding)]
    last,             \* the most recent completed call: its inputs, the
                      \* locals it computed and its response
    sessions,         \* database.py: the open connections of the calls in
                      \* progress, each with the locals of its call
    scripts_db,       \* voice-voting server.py: dict scriptId -> Script
    votes_db,         \* voice-voting server.py: dict scriptId -> set of voters
    script_id_counter, \* voice-voting server.py: the next scriptId
    versions,         \* ModelVersionManager.versions: models, active_versions
    config_file,      \* the file at ModelVersionManager.config_path
    clock,            \* the time of day that datetime.utcnow() reads
    replaced,         \* history: per model, the version that was active
                      \* immediately before the current one
    dao_votes         \* table dao_votes: the rows in insertion order

vars == <<clip_embeddings, render_jobs, known, last, sessions, scripts_db,
          votes_db, script_id_counter, versions, config_file, clock,
          replaced, dao_votes>>

\* The state of the clip-provenance service, of the connections of its
\* database calls in progress, and of the voice-voting service.
provenanceVars == <<clip_embeddings, render_jobs, known>>

connectionVars == <<sessions>>

voiceVars == <<scripts_db, votes_db, script_id_counter>>

\* The state of the model version manager, and the table of DAO votes.
versionVars == <<versions, config_file, clock, replaced>>

daoVars == <<dao_votes>>

ArtifactIds == {"x", "y"}

JobIds == {"j1"}

\* A request field that is not present in the JSON body.
Absent == "absent"

\* Python None / SQL NULL.
None == "None"

EmptyMeta == "{}"

Metadatas == {None, "{k:1}"}

Wallets == {Absent, "w1"}

\* The paths the requests of Spec carry.
ServicePaths == {<<"img", "x">>, <<"img", "y">>, BadPath}

(***************************************************************************)
(* database.py                                                             *)
(***************************************************************************)
\* psycopg2.extras.Json(metadata or {})
MetaOrEmpty(metadata) ==
    IF metadata \in {None, EmptyMeta} THEN EmptyMeta ELSE metadata

\* The rows of `table` that conflict with artifact_id (the arbiter of
\* ON CONFLICT (artifact_id)).
Conflicting(table, artifact_id) ==
    {r \in table : r.artifact_id = artifact_id}

\* A plain INSERT into a table without a uniqueness arbiter.
store_embedding_insert_only(table, artifact_id, embedding, metadata) ==
    table \cup {[artifact_id |-> artifact_id,
                 embedding   |-> embedding,
                 metadata    |-> MetaOrEmpty(metadata)]}

\* A DELETE of every row followed by the INSERT.
store_embedding_replace_all(table, artifact_id, embedding, metadata) ==
    {[artifact_id |-> artifact_id,
      embedding   |-> embedding,
      metadata    |-> MetaOrEmpty(metadata)]}

\* INSERT ... ON CONFLICT (artifact_id) DO UPDATE SET embedding, metadata
store_embedding(table, artifact_id, embedding, metadata) ==
    (table \ Conflicting(table, artifact_id))
        \cup {[artifact_id |-> artifact_id,
               embedding   |-> embedding,
               metadata    |-> MetaOrEmpty(metadata)]}

RECURSIVE Orderings(_)
\* Every order in which the rows of a set can be returned.
Orderings(S) ==
    IF S = {} THEN {<<>>}
    ELSE UNION {{<<r>> \o o : o \in Orderings(S \ {r})} : r \in S}

\* SELECT artifact_id, embedding FROM clip_embeddings (no ORDER BY: the
\* rows come in an order the database chooses).
get_all_embeddings(table) ==
    {[i \in 1..Len(o) |-> [artifact_id |-> o[i].artifact_id,
                           embedding   |-> o[i].embedding]] :
        o \in Orderings(table)}

\* INSERT INTO render_jobs ... ON CONFLICT (id) DO UPDATE SET output_url,
\* originality_score, signed_hash, signature
store_job_metadata(table, job_id, wallet, scene, output, format, score, signed_hash, signature) ==
    LET old == {r \in table : r.id = job_id}
        new == IF old = {}
               THEN [id |-> job_id, creator_wallet |-> wallet,
                     scene |-> scene, format |-> format,
                     output_url |-> output, originality_score |-> score,
                     signed_hash |-> signed_hash, signature |-> signature]
               ELSE LET r == CHOOSE r \in old : TRUE
                    IN  [r EXCEPT !.output_url = output,
                                  !.originality_score = score,
                                  !.signed_hash = signed_hash,
                                  !.signature = signature]
    IN  (table \ old) \cup {new}

(***************************************************************************)
(* server.py: audit                                                        *)
(***************************************************************************)
\* Position of a new element among elements with an equal key: before them.
InsertSorted_unstable(s, e) ==
    LET k == Cardinality({i \in 1..Len(s) : s[i].similarity > e.similarity})
    IN  SubSeq(s, 1, k) \o <<e>> \o SubSeq(s, k + 1, Len(s))

\* An insertion that keeps the list ascending (reverse=True forgotten).
InsertSorted_ascending(s, e) ==
    LET k == Cardinality({i \in 1..Len(s) : s[i].similarity <= e.similarity})
    IN  SubSeq(s, 1, k) \o <<e>> \o SubSeq(s, k + 1, Len(s))

\* One insertion of list.sort(key=similarity, reverse=True): after every
\* element whose key is greater or equal (Python's sort is stable, and
\* reverse=True keeps the original order of equal keys).
InsertSorted(s, e) ==
    LET k == Cardinality({i \in 1..Len(s) : s[i].similarity >= e.similarity})
    IN  SubSeq(s, 1, k) \o <<e>> \o SubSeq(s, k + 1, Len(s))

RECURSIVE SortDesc(_)
\* sims.sort(key=lambda x: x['similarity'], reverse=True)
SortDesc(s) ==
    IF s = <<>> THEN <<>>
    ELSE InsertSorted(SortDesc(SubSeq(s, 1, Len(s) - 1)), s[Len(s)])

\* score = 1.0 for an empty corpus
EmptyScore_zero == Scale - Scale

EmptyScore == Scale

\* 1 - top_sim, without the clamp
Originality_unclamped(top_sim) == Scale - top_sim

\* originality = 1 - min(1.0, top_sim)
Originality(top_sim) == Scale - Min(Scale, top_sim)

\* sims[:TopK + 1]
Matches_one_more(sims) == SubSeq(sims, 1, Min(TopK + 1, Len(sims)))

\* matches = sims[:5]
Matches(sims) == SubSeq(sims, 1, Min(TopK, Len(sims)))

\* Lines 59-73 of audit: the score and the matches for the query embedding
\* and the rows read from the database; ok = FALSE when similarity raises.
AuditCompute(emb, stored) ==
    IF stored = <<>>
    THEN [ok |-> TRUE, sims |-> <<>>, score |-> EmptyScore, matches |-> <<>>]
    ELSE LET raw == [i \in 1..Len(stored) |->
                        similarity(emb, stored[i].embedding)]
         IN  IF \E i \in 1..Len(stored) : ~raw[i].ok
             THEN [ok |-> FALSE, sims |-> <<>>, score |-> 0, matches |-> <<>>]
             ELSE LET sims == SortDesc([i \in 1..Len(stored) |->
                                [id         |-> stored[i].artifact_id,
                                 similarity |-> raw[i].val]])
                  IN  [ok      |-> TRUE,
                       sims    |-> sims,
                       score   |-> Originality(sims[1].similarity),
                       matches |-> Matches(sims)]

\* An audit that also indexes the audited image under its file name.
audit_indexing(path, job_id, wallet) ==
    /\ UNCHANGED <<render_jobs, known, connectionVars, voiceVars,
                   versionVars, daoVars>>
    /\ IF ~EmbedOk(path)
       THEN /\ last' = [op |-> "audit", status |-> 500, path |-> path,
                        job_id |-> job_id]
            /\ UNCHANGED clip_embeddings
       ELSE /\ clip_embeddings' = store_embedding(clip_embeddings,
                                     Basename(path), embed(path), None)
            /\ last' = [op |-> "audit", status |-> 500, path |-> path,
                        job_id |-> job_id, emb |-> embed(path),
                        stored |-> <<>>]

\* POST /audit
audit(path, job_id, wallet) ==
    /\ UNCHANGED <<clip_embeddings, known, connectionVars, voiceVars,
                   versionVars, daoVars>>
    /\ IF ~EmbedOk(path)
       THEN /\ last' = [op |-> "audit", status |-> 500, path |-> path,
                        job_id |-> job_id]
            /\ UNCHANGED render_jobs
       ELSE \E stored \in get_all_embeddings(clip_embeddings) :
              LET emb == embed(path)
                  res == AuditCompute(emb, stored)
              IN  IF ~res.ok
                  THEN /\ last' = [op |-> "audit", status |-> 500,
                                   path |-> path, job_id |-> job_id,
                                   emb |-> emb, stored |-> stored]
                       /\ UNCHANGED render_jobs
                  ELSE /\ render_jobs' =
                            IF job_id = Absent THEN render_jobs
                            ELSE store_job_metadata(render_jobs, job_id,
                                    IF wallet = Absent THEN "unknown"
                                                       ELSE wallet,
                                    "unknown", None, "unknown", res.score,
                                    None, None)
                       /\ last' = [op |-> "audit", status |-> 200,
                                   path |-> path, job_id |-> job_id,
                                   emb |-> emb, stored |-> stored,
                                   sims |-> res.sims,
                                   originalityScore |-> res.score,
                                   matches |-> res.matches]

(***************************************************************************)
(* server.py: embed and index; database.py called directly                 *)
(***************************************************************************)
\* What the INSERT of store_embedding finds for artifact_id: no row
\* ("absent"), or a row that the values to store leave as it is ("same") or
\* change ("different").
Found(table, artifact_id, embedding, metadata) ==
    IF Conflicting(table, artifact_id) = {} THEN "absent"
    ELSE IF store_embedding(table, artifact_id, embedding, metadata) = table
    THEN "same"
    ELSE "different"

\* The call record of a completed upsert.
Upserted(op, path, artifact_id, embedding, metadata) ==
    [op |-> op, status |-> 200, path |-> path,
     artifact_id |-> artifact_id, embedding |-> embedding,
     metadata |-> metadata,
     found |-> Found(clip_embeddings, artifact_id, embedding, metadata)]

\* POST /embed
do_embed(path, artifact_id, metadata) ==
    /\ UNCHANGED <<render_jobs, known, connectionVars, voiceVars,
                   versionVars, daoVars>>
    /\ IF ~EmbedOk(path)
       THEN /\ last' = [op |-> "embed", status |-> 500, path |-> path]
            /\ UNCHANGED clip_embeddings
       ELSE IF artifact_id = Absent
       THEN /\ last' = [op |-> "embed", status |-> 200, path |-> path,
                        vector |-> embed(path)]
            /\ UNCHANGED clip_embeddings
       ELSE /\ clip_embeddings' = store_embedding(clip_embeddings,
                                     artifact_id, embed(path), metadata)
            /\ last' = Upserted("embed", path, artifact_id, embed(path),
                                metadata)

\* POST /index
index(path, id, metadata) ==
    /\ UNCHANGED <<render_jobs, connectionVars, voiceVars,
                   versionVars, daoVars>>
    /\ IF ~EmbedOk(path)
       THEN /\ last' = [op |-> "index", status |-> 500, path |-> path]
            /\ UNCHANGED <<clip_embeddings, known>>
       ELSE LET art_id == IF id = Absent THEN Basename(path) ELSE id
            IN  /\ Len(known) < MaxKnown
                /\ clip_embeddings' = store_embedding(clip_embeddings,
                                         art_id, embed(path), metadata)
                /\ known' = Append(known, <<art_id, embed(path)>>)
                /\ last' = Upserted("index", path, art_id, embed(path),
                                    metadata)

\* Database.store_embedding called by a client of database.py other than
\* server.py, with a vector of its own.
StoreEmbedding(artifact_id, embedding, metadata) ==
    /\ UNCHANGED <<render_jobs, known, connectionVars, voiceVars,
                   versionVars, daoVars>>
    /\ clip_embeddings' = store_embedding(clip_embeddings, artifact_id,
                                          embedding, metadata)
    /\ last' = Upserted("store_embedding", None, artifact_id, embedding,
                        metadata)

(***************************************************************************)
(* Specifications                                                          *)
(***************************************************************************)
NoCall == [op |-> "none"]

\* No database call in progress.
NoSessions == <<>>

\* voice-voting server.py as loaded: scripts_db = {}, votes_db = {},
\* script_id_counter = 0
VoiceInit ==
    /\ scripts_db = <<>>
    /\ votes_db = <<>>
    /\ script_id_counter = 0

\* ModelVersionManager(): no file at config_path, so _load_versions returns
\* {"models": {}, "active_versions": {}}
VersionInit ==
    /\ versions = [models |-> <<>>, active_versions |-> <<>>]
    /\ config_file = [exists |-> FALSE]
    /\ clock = 0
    /\ replaced = <<>>

\* No vote has been cast.
DaoInit == dao_votes = <<>>

Init ==
    /\ clip_embeddings = {}
    /\ render_jobs = {}
    /\ known = <<>>
    /\ last = NoCall
    /\ sessions = NoSessions
    /\ VoiceInit
    /\ VersionInit
    /\ DaoInit

Next ==
    \/ \E path \in ServicePaths, job_id \in JobIds \cup {Absent},
          wallet \in Wallets :
          audit(path, job_id, wallet)
    \/ \E path \in ServicePaths, artifact_id \in ArtifactIds \cup {Absent},
          metadata \in Metadatas :
          do_embed(path, artifact_id, metadata)
    \/ \E path \in ServicePaths, id \in ArtifactIds \cup {Absent},
          metadata \in Metadatas :
          index(path, id, metadata)
    \/ \E artifact_id \in ArtifactIds, embedding \in ForeignVectors,
          metadata \in Metadatas :
          StoreEmbedding(artifact_id, embedding, metadata)

Spec == Init /\ [][Next]_vars

(***************************************************************************)
(* SpecCorpus: one audit by a service that starts on a database in which  *)
(* earlier index calls have persisted up to MaxCorpus artifacts.           *)
(***************************************************************************)
CorpusIds == <<"x", "y", "a3", "a4", "a5", "a6", "a7", "a8">>

\* The image each artifact of a persisted corpus was indexed from: all the
\* same image, two images in turn, or five images in turn.
CorpusImages ==
    {<< <<"img", "x">> >>,
     << <<"img", "x">>, <<"img", "y">> >>,
     << <<"img", "x">>, <<"img", "y">>, <<"img", "d">>, <<"img", "e">>,
        <<"img", "n">> >>}

CorpusTable(n, images) ==
    {[artifact_id |-> CorpusIds[i],
      embedding   |-> embed(images[((i - 1) % Len(images)) + 1]),
      metadata    |-> EmptyMeta] : i \in 1..n}

InitCorpus ==
    /\ \E n \in 0..MaxCorpus, images \in CorpusImages :
          clip_embeddings = CorpusTable(n, images)
    /\ render_jobs = {}
    /\ known = <<>>
    /\ last = NoCall
    /\ sessions = NoSessions
    /\ VoiceInit
    /\ VersionInit
    /\ DaoInit

NextCorpus ==
    /\ last = NoCall
    /\ \E path \in Paths, job_id \in JobIds \cup {Absent} :
          audit(path, job_id, Absent)

SpecCorpus == InitCorpus /\ [][NextCorpus]_vars

(***************************************************************************)
(* Properties                                                              *)
(***************************************************************************)
\* The last call was an audit that answered 200.
AuditOk == last.op = "audit" /\ last.status = 200

\* The last call was an audit whose image could be embedded.
AuditRan == last.op = "audit" /\ EmbedOk(last.path)

\* The last call was a store_embedding that returned, from any caller.
UpsertDone(call) ==
    /\ call.op \in {"embed", "index", "store_embedding"}
    /\ call.status = 200
    /\ "artifact_id" \in DOMAIN call

\* The largest element of a non-empty set of integers.
Max(S) == CHOOSE m \in S : \A n \in S : n <= m

\* The index of artifact id in a sequence of rows that holds it once.
PosIn(rows, id) == CHOOSE i \in 1..Len(rows) : rows[i].artifact_id = id

\* C1: an audit of a valid image while clip_embeddings is empty answers 200
\* with originalityScore 1.0 and no matches.
C1_EmptyCorpusAudit ==
    (AuditRan /\ clip_embeddings = {}) =>
        /\ last.status = 200
        /\ last.originalityScore = Scale
        /\ last.matches = <<>>

C1_Witness ==
    /\ AuditOk
    /\ clip_embeddings = {}
    /\ last.stored = <<>>
    /\ last.path = <<"img", "d">>

\* C2: for a non-empty corpus the first entry of the ranking carries the
\* largest similarity between the query and any stored vector, and
\* originalityScore = 1.0 - min(1.0, that similarity).
C2_ScoreFromTop ==
    (AuditOk /\ last.stored # <<>>) =>
        LET top == Max({similarity(last.emb, r.embedding).val :
                            r \in clip_embeddings})
        IN  /\ last.sims[1].similarity = top
            /\ last.originalityScore = Scale - (IF top > Scale THEN Scale ELSE top)

\* A corpus of three or more in which the largest similarity is not that of
\* the first row read, and exceeds 1.0 by rounding.
C2_Witness ==
    /\ AuditOk
    /\ Len(last.stored) >= 3
    /\ last.sims[1].id # last.stored[1].artifact_id
    /\ last.sims[1].similarity > Scale
    /\ last.originalityScore = 0

\* C3 (as claimed): the originalityScore of every successful audit lies in
\* [0, 1].
C3_ScoreInUnitInterval ==
    AuditOk => (0 <= last.originalityScore /\ last.originalityScore <= Scale)

\* C4: the ranking of an audit has one entry per row read, each with the
\* similarity of that row, is sorted by similarity in descending order, and
\* entries of equal similarity keep the order of the rows read.
C4_RankingSortedStable ==
    AuditOk =>
        LET stored == last.stored
            sims   == last.sims
        IN  /\ Len(stored) = Cardinality(clip_embeddings)
            /\ Len(sims) = Len(stored)
            /\ \A i \in 1..Len(stored) :
                  \E j \in 1..Len(sims) :
                      /\ sims[j].id = stored[i].artifact_id
                      /\ sims[j].similarity =
                            similarity(last.emb, stored[i].embedding).val
            /\ \A j, k \in 1..Len(sims) :
                  j < k =>
                      /\ sims[j].similarity >= sims[k].similarity
                      /\ sims[j].similarity = sims[k].similarity =>
                            PosIn(stored, sims[j].id) < PosIn(stored, sims[k].id)

\* Rows read out of order, with a tie between two of them: the tied entries
\* come out in the order read.
C4_Witness ==
    /\ AuditOk
    /\ Len(last.stored) >= 3
    /\ \E i, j \in 1..Len(last.stored) :
          /\ i < j
          /\ similarity(last.emb, last.stored[i].embedding).val
                < similarity(last.emb, last.stored[j].embedding).val
    /\ \E j \in 1..(Len(last.sims) - 1) :
          /\ last.sims[j].similarity = last.sims[j + 1].similarity
          /\ PosIn(last.stored, last.sims[j].id)
                < PosIn(last.stored, last.sims[j + 1].id)

\* C5: for a corpus of N rows, matches has min(5, N) entries and is the
\* first entries of the ranking in the same order, hence descending.
C5_MatchesTopFive ==
    AuditOk =>
        LET N == Cardinality(clip_embeddings)
        IN  /\ Len(last.matches) = (IF N < 5 THEN N ELSE 5)
            /\ \A i \in 1..Len(last.matches) : last.matches[i] = last.sims[i]
            /\ \A i, j \in 1..Len(last.matches) :
                  i < j => last.matches[i].similarity
                              >= last.matches[j].similarity

\* A corpus of more than five rows: the ranking is longer than matches.
C5_Witness ==
    /\ AuditOk
    /\ Cardinality(clip_embeddings) > 5
    /\ Len(last.matches) = 5
    /\ Len(last.sims) > 5

C7_IdenticalReportedExactly ==
    AuditOk =>
        \A r \in clip_embeddings :
            r.embedding = last.emb =>
                /\ \E i \in 1..Len(last.matches) :
                      /\ last.matches[i].id = r.artifact_id
                      /\ last.matches[i].similarity = Scale
                /\ last.originalityScore = 0

\* C7 (amended): when a stored artifact's vector equals the query, the
\* ranking lists it with similarity 1.0 up to one unit of rounding, it is
\* in matches unless five entries rank before it, the top match has
\* similarity 1.0 up to rounding and the originality is 0.0 up to rounding
\* and not negative; with "x" stored as [1,0] and "y" as [0,1], the audit
\* of [1,0] returns "x" first with similarity exactly 1.0 and originality
\* exactly 0.0.
C7_IdenticalReported ==
    AuditOk =>
        /\ \A r \in clip_embeddings :
              r.embedding = last.emb =>
                  /\ \E i \in 1..Len(last.sims) :
                        /\ last.sims[i].id = r.artifact_id
                        /\ Abs(last.sims[i].similarity - Scale) <= 1
                        /\ i <= 5 => last.matches[i] = last.sims[i]
                  /\ Abs(last.matches[1].similarity - Scale) <= 1
                  /\ 0 <= last.originalityScore
                  /\ last.originalityScore <= 1
        /\ ( /\ {r.artifact_id : r \in clip_embeddings} = {"x", "y"}
             /\ \A r \in clip_embeddings :
                   r.embedding = (IF r.artifact_id = "x"
                                  THEN <<Scale, 0>> ELSE <<0, Scale>>)
             /\ last.emb = <<Scale, 0>> )
           => /\ last.matches[1] = [id |-> "x", similarity |-> Scale]
              /\ last.originalityScore = 0

\* The scenario: "x" = [1,0] and "y" = [0,1] stored, read in the order y, x.
C7_Witness ==
    /\ AuditOk
    /\ last.stored = << [artifact_id |-> "y", embedding |-> <<0, Scale>>],
                        [artifact_id |-> "x", embedding |-> <<Scale, 0>>] >>
    /\ last.emb = <<Scale, 0>>
    /\ last.matches[1] = [id |-> "x", similarity |-> Scale]
    /\ last.originalityScore = 0

\* C8 (as claimed): an audit whose query has another number of components
\* than some stored vector does not answer 200.
C8_MismatchFailsAudit ==
    (AuditRan /\ \E r \in clip_embeddings :
                    Len(r.embedding) # Len(embed(last.path)))
        => last.status # 200

\* C9 (as claimed): a store_embedding with an empty vector does not
\* succeed, and no row ever holds an empty vector.
C9_EmptyVectorRejected ==
    /\ (last.op = "store_embedding" /\ last.embedding = <<>>)
          => last.status # 200
    /\ \A r \in clip_embeddings : r.embedding # <<>>

\* C10 (as claimed): all stored vectors have the same number of components.
C10_UniformDimension ==
    \A r1, r2 \in clip_embeddings : Len(r1.embedding) = Len(r2.embedding)

(***************************************************************************)
(* SpecConc: database.py under concurrent requests.  Every call of         *)
(* store_embedding and of get_all_embeddings opens a connection of its     *)
(* own; PostgreSQL runs each in a READ COMMITTED transaction.              *)
(***************************************************************************)
\* The connections of the store_embedding calls and of the audits.
Writers == {"w1", "w2"}

Readers == {"r1"}

Idle == [pc |-> "idle"]

\* The /embed requests in flight: artifact_id, path and metadata.
ConcWrites ==
    {[artifact_id |-> "x", path |-> <<"img", "x">>, metadata |-> "{k:1}"],
     [artifact_id |-> "x", path |-> <<"img", "y">>, metadata |-> None],
     [artifact_id |-> "y", path |-> <<"img", "y">>, metadata |-> "{k:1}"]}

\* The row that the INSERT of request w carries.
RowOf(w) ==
    [artifact_id |-> w.artifact_id, embedding |-> embed(w.path),
     metadata |-> MetaOrEmpty(w.metadata)]

\* The connections that hold an uncommitted row.
Uncommitted(sess) == {s \in Writers : sess[s].pc = "executed"}

\* An INSERT that never waits for the transaction that holds the key.
Blocked_never(sess, s, artifact_id) == artifact_id # artifact_id

\* INSERT ... ON CONFLICT waits while another open transaction holds an
\* uncommitted row for the same artifact_id.
Blocked(sess, s, artifact_id) ==
    \E o \in Uncommitted(sess) \ {s} : sess[o].w.artifact_id = artifact_id

\* A commit that publishes the new embedding of an updated row but leaves
\* the metadata for later.
ApplyCommit_torn(table, row, found) ==
    IF found = "absent" THEN table \cup {row}
    ELSE {IF r.artifact_id = row.artifact_id
          THEN [r EXCEPT !.embedding = row.embedding] ELSE r : r \in table}

\* conn.commit(): the row the statement inserted, or the row it updated in
\* place of the conflicting one, becomes visible in one step.
ApplyCommit(table, row, found) ==
    IF found = "absent"
    THEN store_embedding_insert_only(table, row.artifact_id, row.embedding,
                                     row.metadata)
    ELSE store_embedding(table, row.artifact_id, row.embedding, row.metadata)

\* A SELECT that also sees the uncommitted rows of other transactions.
Visible_dirty(table, sess) ==
    {r \in table : \A s \in Uncommitted(sess) :
                      sess[s].w.artifact_id # r.artifact_id}
        \cup {RowOf(sess[s].w) : s \in Uncommitted(sess)}

\* The rows a SELECT sees under READ COMMITTED: the committed ones.
Visible(table, sess) == table

\* store_embedding: conn = self.get_connection()
get_connection(s, w) ==
    /\ sessions[s] = Idle
    /\ sessions' = [sessions EXCEPT ![s] = [pc |-> "connected", w |-> w]]
    /\ UNCHANGED <<provenanceVars, last, voiceVars,
                   versionVars, daoVars>>

\* store_embedding: cur.execute(INSERT ... ON CONFLICT DO UPDATE)
execute_upsert(s) ==
    /\ sessions[s].pc = "connected"
    /\ ~Blocked(sessions, s, sessions[s].w.artifact_id)
    /\ sessions' = [sessions EXCEPT ![s] =
          [pc |-> "executed", w |-> sessions[s].w,
           found |-> IF Conflicting(clip_embeddings,
                                    sessions[s].w.artifact_id) = {}
                     THEN "absent" ELSE "present"]]
    /\ UNCHANGED <<provenanceVars, last, voiceVars,
                   versionVars, daoVars>>

\* store_embedding: conn.commit()
commit(s) ==
    /\ sessions[s].pc = "executed"
    /\ clip_embeddings' = ApplyCommit(clip_embeddings, RowOf(sessions[s].w),
                                      sessions[s].found)
    /\ sessions' = [sessions EXCEPT ![s] =
          [pc |-> "committed", w |-> sessions[s].w,
           found |-> sessions[s].found]]
    /\ UNCHANGED <<render_jobs, known, last, voiceVars,
                   versionVars, daoVars>>

\* store_embedding: commit raises (the connection is lost) and the finally
\* clause closes the connection: the transaction is rolled back.
rollback(s) ==
    /\ sessions[s].pc = "executed"
    /\ sessions' = [sessions EXCEPT ![s] = Idle]
    /\ UNCHANGED <<provenanceVars, last, voiceVars,
                   versionVars, daoVars>>

\* store_embedding: finally: conn.close(), and the call returns
close(s) ==
    /\ sessions[s].pc = "committed"
    /\ sessions' = [sessions EXCEPT ![s] = Idle]
    /\ UNCHANGED <<provenanceVars, last, voiceVars,
                   versionVars, daoVars>>

\* audit: emb = embed(path)
audit_embed(s, path) ==
    /\ sessions[s] = Idle
    /\ EmbedOk(path)
    /\ sessions' = [sessions EXCEPT ![s] =
          [pc |-> "embedded", path |-> path, emb |-> embed(path)]]
    /\ UNCHANGED <<provenanceVars, last, voiceVars,
                   versionVars, daoVars>>

\* audit: stored = db.get_all_embeddings()
execute_select(s) ==
    /\ sessions[s].pc = "embedded"
    /\ \E stored \in get_all_embeddings(Visible(clip_embeddings, sessions)) :
          sessions' = [sessions EXCEPT ![s] =
              [pc |-> "selected", path |-> sessions[s].path,
               emb |-> sessions[s].emb, stored |-> stored]]
    /\ UNCHANGED <<provenanceVars, last, voiceVars,
                   versionVars, daoVars>>

\* audit: the similarities, the score, the matches and the response
audit_respond(s) ==
    /\ sessions[s].pc = "selected"
    /\ LET res == AuditCompute(sessions[s].emb, sessions[s].stored)
       IN  sessions' = [sessions EXCEPT ![s] =
              [pc |-> "responded", path |-> sessions[s].path,
               emb |-> sessions[s].emb, stored |-> sessions[s].stored,
               status |-> IF res.ok THEN 200 ELSE 500,
               originalityScore |-> res.score, matches |-> res.matches]]
    /\ UNCHANGED <<provenanceVars, last, voiceVars,
                   versionVars, daoVars>>

\* The response of the audit has been sent.
audit_return(s) ==
    /\ sessions[s].pc = "responded"
    /\ sessions' = [sessions EXCEPT ![s] = Idle]
    /\ UNCHANGED <<provenanceVars, last, voiceVars,
                   versionVars, daoVars>>

InitConc ==
    /\ clip_embeddings = {}
    /\ render_jobs = {}
    /\ known = <<>>
    /\ last = NoCall
    /\ sessions = [s \in Writers \cup Readers |-> Idle]
    /\ VoiceInit
    /\ VersionInit
    /\ DaoInit

NextConc ==
    \/ \E s \in Writers, w \in ConcWrites : get_connection(s, w)
    \/ \E s \in Writers : execute_upsert(s)
    \/ \E s \in Writers : commit(s)
    \/ \E s \in Writers : rollback(s)
    \/ \E s \in Writers : close(s)
    \/ \E s \in Readers, path \in {<<"img", "x">>, <<"img", "d">>} :
          audit_embed(s, path)
    \/ \E s \in Readers : execute_select(s)
    \/ \E s \in Readers : audit_respond(s)
    \/ \E s \in Readers : audit_return(s)

SpecConc == InitConc /\ [][NextConc]_vars

\* The rows that one store_embedding call of SpecConc writes as a whole.
WholeRows == {RowOf(w) : w \in ConcWrites}

\* (artifact_id, embedding) of a row: what get_all_embeddings selects.
Selected(r) == [artifact_id |-> r.artifact_id, embedding |-> r.embedding]

\* Connection s reads the table in this step.
SelectStep(s) == sessions[s].pc = "embedded" /\ sessions'[s].pc = "selected"

\* Connection s commits in this step.
CommitStep(s) == sessions[s].pc = "executed" /\ sessions'[s].pc = "committed"

\* C11: a snapshot read while upserts are in progress holds no partially
\* applied upsert: every row of the table is, vector and metadata, the row
\* of one store_embedding call, and every entry read is the (artifact_id,
\* vector) of such a committed row, never that of an uncommitted one.
C11_NoTornRead ==
    /\ [](clip_embeddings \subseteq WholeRows)
    /\ [][\A s \in Readers :
            SelectStep(s) =>
                \A i \in 1..Len(sessions'[s].stored) :
                    \E r \in clip_embeddings \cap WholeRows :
                        sessions'[s].stored[i] = Selected(r)]_vars

\* A snapshot that holds the committed row of "x" while another connection
\* holds an uncommitted update of "x".
C11_Witness ==
    /\ sessions["r1"].pc = "selected"
    /\ \E s \in Uncommitted(sessions) :
          /\ sessions[s].found = "present"
          /\ RowOf(sessions[s].w) \notin clip_embeddings
          /\ \E i \in 1..Len(sessions["r1"].stored) :
                /\ sessions["r1"].stored[i].artifact_id
                      = sessions[s].w.artifact_id
                /\ sessions["r1"].stored[i].embedding
                      # embed(sessions[s].w.path)

\* C12: an audit that overlaps upserts answers 200 with the score and the
\* matches of the rows it read, and it read the committed table of one
\* instant: the row of an upsert not yet committed is left out whole.
C12_AuditOneInstant ==
    /\ [](\A s \in Readers :
            sessions[s].pc = "responded" =>
                LET res == AuditCompute(sessions[s].emb, sessions[s].stored)
                IN  /\ sessions[s].status = 200
                    /\ sessions[s].originalityScore = res.score
                    /\ sessions[s].matches = res.matches
                    /\ \E T \in SUBSET WholeRows :
                          sessions[s].stored \in get_all_embeddings(T))
    /\ [][\A s \in Readers :
            SelectStep(s) =>
                /\ sessions'[s].stored \in get_all_embeddings(clip_embeddings)
                /\ \A o \in Uncommitted(sessions) :
                      RowOf(sessions[o].w) \notin clip_embeddings =>
                          \A i \in 1..Len(sessions'[s].stored) :
                              sessions'[s].stored[i]
                                  # Selected(RowOf(sessions[o].w))]_vars

\* An audit answered over two rows while one upsert is uncommitted and
\* another has committed and not yet returned.
C12_Witness ==
    /\ sessions["r1"].pc = "responded"
    /\ sessions["r1"].status = 200
    /\ Len(sessions["r1"].stored) = 2
    /\ \E s \in Uncommitted(sessions) :
          RowOf(sessions[s].w) \notin clip_embeddings
    /\ \E s \in Writers : sessions[s].pc = "committed"

\* C13: upserts exclude each other: at most one connection holds an
\* uncommitted row for an artifact_id, no artifact_id ever has two rows, a
\* commit leaves for its artifact_id the one row of its own call and the
\* other rows as they were, and once two overlapping upserts of one
\* artifact_id have committed the table holds for it the whole row of one
\* of the two.
C13_UpsertsExclusive ==
    /\ [](\A a, b \in Uncommitted(sessions) :
            sessions[a].w.artifact_id = sessions[b].w.artifact_id => a = b)
    /\ [](\A r1, r2 \in clip_embeddings :
            r1.artifact_id = r2.artifact_id => r1 = r2)
    /\ [](\A a, b \in Writers :
            ( /\ a # b
              /\ sessions[a].pc = "committed"
              /\ sessions[b].pc = "committed"
              /\ sessions[a].w.artifact_id = sessions[b].w.artifact_id )
            => Conflicting(clip_embeddings, sessions[a].w.artifact_id)
                  \in {{RowOf(sessions[a].w)}, {RowOf(sessions[b].w)}})
    /\ [][\A s \in Writers :
            CommitStep(s) =>
                LET id == sessions[s].w.artifact_id
                IN  /\ Conflicting(clip_embeddings', id)
                          = {RowOf(sessions[s].w)}
                    /\ clip_embeddings' \ Conflicting(clip_embeddings', id)
                          = clip_embeddings \ Conflicting(clip_embeddings, id)
         ]_vars

\* Two overlapping upserts of "x" with different vectors and metadata have
\* both committed; the second found the row of the first.
C13_Witness ==
    /\ sessions["w1"].pc = "committed"
    /\ sessions["w2"].pc = "committed"
    /\ sessions["w1"].w.artifact_id = sessions["w2"].w.artifact_id
    /\ sessions["w1"].w # sessions["w2"].w
    /\ sessions["w2"].found = "present"
    /\ Conflicting(clip_embeddings, sessions["w1"].w.artifact_id)
          = {RowOf(sessions["w2"].w)}

\* The score of an audit of emb over the rows of table (in any order).
ScoreOver(emb, table) ==
    IF table = {} THEN EmptyScore
    ELSE Originality(Max({similarity(emb, r.embedding).val : r \in table}))

\* C14: audit only reads the embedding store: a step that is an audit, with
\* or without a job_id, answered 200 or 500, leaves the rows of
\* clip_embeddings, and so every snapshot of them, as they were.
C14_AuditPureRead ==
    [][last'.op = "audit" =>
          /\ clip_embeddings' = clip_embeddings
          /\ get_all_embeddings(clip_embeddings')
                = get_all_embeddings(clip_embeddings)
          /\ \A r \in clip_embeddings' :
                ("emb" \in DOMAIN last' /\ r.embedding = last'.emb)
                    => r \in clip_embeddings]_vars

\* An audit with a job_id answered 200 over two stored artifacts, its score
\* recorded in render_jobs, and neither artifact is the audited image under
\* its file name.
C14_Witness ==
    /\ AuditOk
    /\ last.job_id = "j1"
    /\ Len(last.stored) = 2
    /\ \E j \in render_jobs :
          j.id = "j1" /\ j.originality_score = last.originalityScore
    /\ \A r \in clip_embeddings :
          r.artifact_id = Basename(last.path) => r.embedding # last.emb

\* C15 (as claimed): of two stored artifacts the one more similar to the
\* query gives the lower or equal score, and the score of an audit is not
\* above the score of the same query over the corpus less any one of its
\* artifacts.
C15_ScoreMonotone ==
    AuditOk =>
        /\ \A r1, r2 \in clip_embeddings :
              similarity(last.emb, r1.embedding).val
                    <= similarity(last.emb, r2.embedding).val
                => Originality(similarity(last.emb, r1.embedding).val)
                    >= Originality(similarity(last.emb, r2.embedding).val)
        /\ \A r \in clip_embeddings :
              last.originalityScore
                    <= ScoreOver(last.emb, clip_embeddings \ {r})

(***************************************************************************)
(* server.py: sign and upload; storage.py                                  *)
(***************************************************************************)
\* data.get("wallet_key", "demo-key")
DemoKey == "demo-key"

WalletKeys == {Absent, "0xAbCdEf01"}

\* The paths the requests of SpecService carry: a file, and no file.
FilePaths == {<<"img", "x">>, BadPath}

\* hashlib.sha256(f.read()).hexdigest() of the file at path
Sha256(path) ==
    CASE Basename(path) = "x" -> "sha256(x)"
      [] Basename(path) = "y" -> "sha256(y)"

\* wallet_key[:6]
KeyPrefix(wallet_key) ==
    CASE wallet_key = "demo-key"   -> "demo-k"
      [] wallet_key = "0xAbCdEf01" -> "0xAbCd"

\* f"signed({digest})_with_{wallet_key[:6]}"
Signature(digest, wallet_key) ==
    CASE digest = "sha256(x)" /\ KeyPrefix(wallet_key) = "demo-k" ->
            "signed(sha256(x))_with_demo-k"
      [] digest = "sha256(x)" /\ KeyPrefix(wallet_key) = "0xAbCd" ->
            "signed(sha256(x))_with_0xAbCd"
      [] digest = "sha256(y)" /\ KeyPrefix(wallet_key) = "demo-k" ->
            "signed(sha256(y))_with_demo-k"
      [] digest = "sha256(y)" /\ KeyPrefix(wallet_key) = "0xAbCd" ->
            "signed(sha256(y))_with_0xAbCd"

\* cur.fetchone() when no row matches
NoJob == [id |-> None]

\* db.get_job_status(job_id): the row, or None
get_job_status(table, job_id) ==
    IF \E r \in table : r.id = job_id
    THEN CHOOSE r \in table : r.id = job_id
    ELSE NoJob

\* POST /sign
sign(path, wallet_key, job_id) ==
    /\ UNCHANGED <<clip_embeddings, known, connectionVars, voiceVars,
                   versionVars, daoVars>>
    /\ IF path = BadPath
       THEN /\ last' = [op |-> "sign", status |-> 500, path |-> path]
            /\ UNCHANGED render_jobs
       ELSE LET key       == IF wallet_key = Absent THEN DemoKey
                                                    ELSE wallet_key
                digest    == Sha256(path)
                signature == Signature(digest, key)
                job       == IF job_id = Absent THEN NoJob
                             ELSE get_job_status(render_jobs, job_id)
            IN  /\ render_jobs' =
                      IF job = NoJob THEN render_jobs
                      ELSE store_job_metadata(render_jobs, job_id,
                              job.creator_wallet, job.scene, job.output_url,
                              job.format, job.originality_score, digest,
                              signature)
                /\ last' = [op |-> "sign", status |-> 200, path |-> path,
                            job_id |-> job_id, hash |-> digest,
                            signature |-> signature]

StorageTypes == {Absent, "ipfs", "dual", "ftp"}

DefaultBucket == "soulvan-artifacts"

\* StorageUploader.upload_to_s3: f"s3://{bucket}/{key}"
upload_to_s3(file_path, bucket, key) ==
    CASE bucket = DefaultBucket /\ key = "x" -> "s3://soulvan-artifacts/x"
      [] bucket = DefaultBucket /\ key = "y" -> "s3://soulvan-artifacts/y"

\* The IpfsHash of Pinata's response for the file.
IpfsHash(file_path) ==
    CASE Basename(file_path) = "x" -> "cid(x)"
      [] Basename(file_path) = "y" -> "cid(y)"

\* StorageUploader.upload_to_ipfs: the dict built from Pinata's response
upload_to_ipfs(file_path) ==
    [ipfs_hash   |-> IpfsHash(file_path),
     gateway_url |->
        CASE IpfsHash(file_path) = "cid(x)" ->
                "https://gateway.pinata.cloud/ipfs/cid(x)"
          [] IpfsHash(file_path) = "cid(y)" ->
                "https://gateway.pinata.cloud/ipfs/cid(y)"]

\* StorageUploader.upload_dual
upload_dual(file_path, bucket, key) ==
    [s3_uri    |-> upload_to_s3(file_path, bucket, key),
     ipfs_hash |-> upload_to_ipfs(file_path).ipfs_hash,
     ipfs_url  |-> upload_to_ipfs(file_path).gateway_url]

\* dict.get(key): None when the key is missing
Get(dict, key) == IF key \in DOMAIN dict THEN dict[key] ELSE None

\* POST /upload; delivered = FALSE when the file cannot be read or the
\* storage service refuses the upload, and the call raises.
upload(path, storage, job_id, delivered) ==
    /\ UNCHANGED <<clip_embeddings, known, connectionVars, voiceVars,
                   versionVars, daoVars>>
    /\ LET storage_type == IF storage = Absent THEN "s3" ELSE storage
           bucket == DefaultBucket
           key    == Basename(path)
       IN  IF storage_type \notin {"s3", "ipfs", "dual"}
           THEN /\ last' = [op |-> "upload", status |-> 400, path |-> path,
                            error |-> "Invalid storage type"]
                /\ UNCHANGED render_jobs
           ELSE IF path = BadPath \/ ~delivered
           THEN /\ last' = [op |-> "upload", status |-> 500, path |-> path]
                /\ UNCHANGED render_jobs
           ELSE LET result ==
                      CASE storage_type = "s3" ->
                             [s3_uri |-> upload_to_s3(path, bucket, key)]
                        [] storage_type = "ipfs" -> upload_to_ipfs(path)
                        [] storage_type = "dual" ->
                             upload_dual(path, bucket, key)
                    job == IF job_id = Absent THEN NoJob
                           ELSE get_job_status(render_jobs, job_id)
                    output_url == IF Get(result, "ipfs_url") # None
                                  THEN Get(result, "ipfs_url")
                                  ELSE Get(result, "s3_uri")
                IN  /\ render_jobs' =
                          IF job = NoJob THEN render_jobs
                          ELSE store_job_metadata(render_jobs, job_id,
                                  job.creator_wallet, job.scene, output_url,
                                  job.format, job.originality_score,
                                  job.signed_hash, job.signature)
                    /\ last' = [op |-> "upload", status |-> 200,
                                path |-> path, job_id |-> job_id,
                                result |-> result]

(***************************************************************************)
(* SpecService: the five routes of server.py, one request at a time.       *)
(***************************************************************************)
NextService ==
    \/ \E path \in FilePaths, artifact_id \in ArtifactIds \cup {Absent} :
          do_embed(path, artifact_id, None)
    \/ \E path \in FilePaths, id \in ArtifactIds \cup {Absent} :
          index(path, id, None)
    \/ \E path \in FilePaths, job_id \in JobIds \cup {Absent} :
          audit(path, job_id, Absent)
    \/ \E path \in FilePaths, wallet_key \in WalletKeys,
          job_id \in JobIds \cup {Absent} :
          sign(path, wallet_key, job_id)
    \/ \E path \in FilePaths, storage \in StorageTypes,
          job_id \in JobIds \cup {Absent}, delivered \in BOOLEAN :
          upload(path, storage, job_id, delivered)

SpecService == Init /\ [][NextService]_vars

\* The artifact ids that have a row in the store.
StoredIds(table) == {r.artifact_id : r \in table}

\* C16: no call deletes from the store: across /embed, /index, /audit,
\* /sign and /upload an artifact_id that has a row has one after every
\* step, and in every snapshot read after it.
C16_NeverDeletes ==
    [][/\ StoredIds(clip_embeddings) \subseteq StoredIds(clip_embeddings')
       /\ \A snap \in get_all_embeddings(clip_embeddings') :
             \A id \in StoredIds(clip_embeddings) :
                 \E i \in 1..Len(snap) : snap[i].artifact_id = id]_vars

\* Two artifacts stored, the job audited, signed and uploaded: the last
\* call uploaded the file and set the job's output_url.
C16_Witness ==
    /\ last.op = "upload"
    /\ last.status = 200
    /\ StoredIds(clip_embeddings) = {"x", "y"}
    /\ \E j \in render_jobs :
          /\ j.signed_hash = Sha256(<<"img", "x">>)
          /\ j.output_url # None
          /\ j.originality_score = 0

\* C17 (as claimed): no collection of indexed (id, embedding) pairs is kept
\* beside the store whose set of ids, number of entries per id or vectors
\* can differ from the store's.
C17_StoreSoleSource ==
    /\ {known[i][1] : i \in 1..Len(known)} = StoredIds(clip_embeddings)
    /\ \A i, j \in 1..Len(known) : known[i][1] = known[j][1] => i = j
    /\ \A i \in 1..Len(known) :
          \A r \in clip_embeddings :
              r.artifact_id = known[i][1] => r.embedding = known[i][2]

\* C18 (as claimed): after an upsert every snapshot holds for each artifact
\* the triple (artifact_id, vector, metadata), and for the artifact just
\* upserted the metadata that was passed (no metadata read back as the
\* empty mapping).
C18_SnapshotLossless ==
    UpsertDone(last) =>
        \A snap \in get_all_embeddings(clip_embeddings) :
            \A i \in 1..Len(snap) :
                /\ DOMAIN snap[i] = {"artifact_id", "embedding", "metadata"}
                /\ snap[i].artifact_id = last.artifact_id =>
                      /\ snap[i].embedding = last.embedding
                      /\ snap[i].metadata = MetaOrEmpty(last.metadata)

(***************************************************************************)
(* voice-voting/server.py.  The handlers are coroutines without an await, *)
(* so each runs to its end before the next request is served.  The         *)
(* background tasks post to the blockchain RPC and change no state of the  *)
(* service; Script.timestamp is not modelled.                              *)
(***************************************************************************)
\* One voter more than the threshold.
NumVoters == ApprovalThreshold + 1

\* The address of the i-th voter.
Voter(i) == <<"0x", i>>

Voters == {Voter(i) : i \in 1..NumVoters}

\* The voters a vote request on a script with these recorded voters comes
\* from: any recorded voter, or a voter not recorded.  Addresses are
\* interchangeable, so the voters new to a script arrive in the order of
\* their numbers.
VoteCandidates(voters) ==
    (voters \cup {Voter(Cardinality(voters) + 1)}) \cap Voters

Characters == {"", "Ava"}

Zones == {"Neo-Tokyo"}

Lines == {"Welcome"}

Authors == {None}

ZeroAddress == "0x0000000000000000000000000000000000000000"

AudioUrls == {"", "ipfs://a1", "ipfs://a2"}

\* A vote check that lets every voter through.
AlreadyVoted_never(voters, voter) == voter # voter

\* if vote_request.voter in votes_db[script_id]
AlreadyVoted(voters, voter) == voter \in voters

\* A check that takes no script for approved.
AlreadyApproved_never(script) == script.approved /\ ~script.approved

\* if script.approved
AlreadyApproved(script) == script.approved

\* A threshold that asks for more than ApprovalThreshold votes.
ThresholdReached_above(votes) == votes > ApprovalThreshold

\* script.votes >= 10
ThresholdReached(votes) == votes >= ApprovalThreshold

\* The response of raise HTTPException(status_code, detail).
HTTPException(op, script_id, status_code, detail) ==
    [op |-> op, script_id |-> script_id, status |-> status_code,
     detail |-> detail]

\* POST /api/voice-vote/scripts
submit_script(character, zone, line, author) ==
    /\ UNCHANGED <<provenanceVars, connectionVars,
                   versionVars, daoVars>>
    /\ IF character = ""
       THEN /\ last' = [op |-> "submit_script", status |-> 422]
            /\ UNCHANGED voiceVars
       ELSE LET script == [scriptId  |-> script_id_counter,
                           character |-> character,
                           zone      |-> zone,
                           line      |-> line,
                           author    |-> IF author = None THEN ZeroAddress
                                                          ELSE author,
                           votes     |-> 0,
                           approved  |-> FALSE,
                           audioUrl  |-> ""]
            IN  /\ script_id_counter < MaxScripts
                /\ scripts_db' = (script_id_counter :> script) @@ scripts_db
                /\ votes_db' = (script_id_counter :> {}) @@ votes_db
                /\ script_id_counter' = script_id_counter + 1
                /\ last' = [op |-> "submit_script", status |-> 200,
                            script |-> script]

\* POST /api/voice-vote/scripts/{script_id}/vote
vote_script(script_id, voter) ==
    /\ UNCHANGED <<provenanceVars, connectionVars,
                   versionVars, daoVars, script_id_counter>>
    /\ IF script_id \notin DOMAIN scripts_db
       THEN /\ last' = HTTPException("vote_script", script_id, 404,
                                     "Script not found")
                       @@ [voter |-> voter]
            /\ UNCHANGED <<scripts_db, votes_db>>
       ELSE IF AlreadyApproved(scripts_db[script_id])
       THEN /\ last' = HTTPException("vote_script", script_id, 400,
                                     "Script already approved")
                       @@ [voter |-> voter]
            /\ UNCHANGED <<scripts_db, votes_db>>
       ELSE IF AlreadyVoted(votes_db[script_id], voter)
       THEN /\ last' = HTTPException("vote_script", script_id, 400,
                                     "Already voted for this script")
                       @@ [voter |-> voter]
            /\ UNCHANGED <<scripts_db, votes_db>>
       ELSE LET voters   == votes_db[script_id] \cup {voter}
                votes    == Cardinality(voters)
                approved == IF ThresholdReached(votes)
                               /\ ~scripts_db[script_id].approved
                            THEN TRUE
                            ELSE scripts_db[script_id].approved
            IN  /\ votes_db' = [votes_db EXCEPT ![script_id] = voters]
                /\ scripts_db' = [scripts_db EXCEPT
                                     ![script_id].votes = votes,
                                     ![script_id].approved = approved]
                /\ last' = [op |-> "vote_script", script_id |-> script_id,
                            voter |-> voter, status |-> 200,
                            detail |-> "success", votes |-> votes,
                            approved |-> approved]

\* POST /api/voice-vote/scripts/{script_id}/audio
submit_audio(script_id, audioUrl) ==
    /\ UNCHANGED <<provenanceVars, connectionVars,
                   versionVars, daoVars, votes_db,
                   script_id_counter>>
    /\ IF script_id \notin DOMAIN scripts_db
       THEN /\ last' = HTTPException("submit_audio", script_id, 404,
                                     "Script not found")
            /\ UNCHANGED scripts_db
       ELSE IF ~scripts_db[script_id].approved
       THEN /\ last' = HTTPException("submit_audio", script_id, 400,
                                     "Script not approved yet")
            /\ UNCHANGED scripts_db
       ELSE IF scripts_db[script_id].audioUrl # ""
       THEN /\ last' = HTTPException("submit_audio", script_id, 400,
                                     "Audio already submitted")
            /\ UNCHANGED scripts_db
       ELSE /\ scripts_db' = [scripts_db EXCEPT
                                 ![script_id].audioUrl = audioUrl]
            /\ last' = [op |-> "submit_audio", script_id |-> script_id,
                        status |-> 200, detail |-> "success",
                        audioUrl |-> audioUrl]

\* GET /api/voice-vote/scripts/{script_id}/voters
get_voters(script_id) ==
    /\ UNCHANGED <<provenanceVars, connectionVars, voiceVars,
                   versionVars, daoVars>>
    /\ IF script_id \notin DOMAIN scripts_db
       THEN last' = HTTPException("get_voters", script_id, 404,
                                  "Script not found")
       ELSE last' = [op |-> "get_voters", script_id |-> script_id,
                     status |-> 200, voters |-> votes_db[script_id],
                     voteCount |-> Cardinality(votes_db[script_id])]

RECURSIVE SumOver(_, _)
\* sum(len(voters) for voters in votes_db.values())
SumOver(db, ids) ==
    IF ids = {} THEN 0
    ELSE LET id == CHOOSE id \in ids : TRUE
         IN  Cardinality(db[id]) + SumOver(db, ids \ {id})

\* GET /api/voice-vote/stats
get_stats ==
    /\ UNCHANGED <<provenanceVars, connectionVars, voiceVars,
                   versionVars, daoVars>>
    /\ last' = [op |-> "get_stats", status |-> 200,
                totalScripts |-> Cardinality(DOMAIN scripts_db),
                approvedScripts |->
                    Cardinality({id \in DOMAIN scripts_db :
                                    scripts_db[id].approved}),
                scriptsWithAudio |->
                    Cardinality({id \in DOMAIN scripts_db :
                                    scripts_db[id].audioUrl # ""}),
                totalVotes |-> SumOver(votes_db, DOMAIN votes_db),
                approvalThreshold |-> ApprovalThreshold]

\* The script ids of the requests: those of the scripts, and one more.
ScriptIds == 0..MaxScripts

NextVoice ==
    \/ \E character \in Characters, zone \in Zones, line \in Lines,
          author \in Authors :
          submit_script(character, zone, line, author)
    \/ \E script_id \in ScriptIds :
          \E voter \in VoteCandidates(IF script_id \in DOMAIN votes_db
                                      THEN votes_db[script_id] ELSE {}) :
              vote_script(script_id, voter)
    \/ \E script_id \in ScriptIds, audioUrl \in AudioUrls :
          submit_audio(script_id, audioUrl)
    \/ \E script_id \in ScriptIds : get_voters(script_id)
    \/ get_stats

SpecVoice == Init /\ [][NextVoice]_vars

\* The step is a vote request by a voter already recorded for the script.
RepeatedVote ==
    /\ last'.op = "vote_script"
    /\ last'.script_id \in DOMAIN votes_db
    /\ last'.voter \in votes_db[last'.script_id]

\* script.votes is the number of recorded voters, which get_voters reports.
VotesAreVoters ==
    /\ \A id \in DOMAIN scripts_db :
          scripts_db[id].votes = Cardinality(votes_db[id])
    /\ (last.op = "get_voters" /\ last.status = 200) =>
          /\ last.voters = votes_db[last.script_id]
          /\ last.voteCount = scripts_db[last.script_id].votes

\* C19 (as claimed): a vote by a voter already recorded for the script is
\* answered 400 'Already voted for this script' and changes nothing, and
\* script.votes is the number of distinct voters recorded for the script.
C19_DuplicateAlreadyVoted ==
    /\ []VotesAreVoters
    /\ [][RepeatedVote =>
            /\ last'.status = 400
            /\ last'.detail = "Already voted for this script"
            /\ UNCHANGED voiceVars]_vars

\* C19 (amended): a vote by a voter already recorded for the script is
\* answered 400 and changes nothing; the detail is 'Already voted for this
\* script' while the script is not approved and 'Script already approved'
\* once it is; script.votes is the number of distinct voters recorded for
\* the script, the voteCount that get_voters reports.
C19_DuplicateRejected ==
    /\ []VotesAreVoters
    /\ [][RepeatedVote =>
            /\ last'.status = 400
            /\ last'.detail = (IF scripts_db[last'.script_id].approved
                               THEN "Script already approved"
                               ELSE "Already voted for this script")
            /\ UNCHANGED voiceVars]_vars

\* A voter recorded for both scripts votes again on one of them, which has
\* three voters, and is answered 'Already voted for this script'.
C19_Witness ==
    /\ last.op = "vote_script"
    /\ last.status = 400
    /\ last.detail = "Already voted for this script"
    /\ DOMAIN scripts_db = {0, 1}
    /\ last.voter \in votes_db[0] \cap votes_db[1]
    /\ scripts_db[last.script_id].votes = 3
    /\ Cardinality(votes_db[last.script_id]) = 3

\* C20: in every state a script is approved exactly when it has at least
\* ApprovalThreshold votes, no script has more votes than that, and
\* get_stats counts as approved the scripts at the threshold.
C20_ApprovedAtThreshold ==
    /\ \A id \in DOMAIN scripts_db :
          /\ scripts_db[id].approved
                <=> scripts_db[id].votes >= ApprovalThreshold
          /\ scripts_db[id].votes <= ApprovalThreshold
    /\ last.op = "get_stats" =>
          /\ last.approvalThreshold = ApprovalThreshold
          /\ last.approvedScripts =
                Cardinality({id \in DOMAIN scripts_db :
                                scripts_db[id].votes >= ApprovalThreshold})

\* The tenth vote has just approved one script while the other has nine
\* votes and is not approved.
C20_Witness ==
    /\ last.op = "vote_script"
    /\ last.status = 200
    /\ last.votes = ApprovalThreshold
    /\ last.approved
    /\ DOMAIN scripts_db = {0, 1}
    /\ \E id \in DOMAIN scripts_db :
          /\ scripts_db[id].votes = ApprovalThreshold - 1
          /\ ~scripts_db[id].approved
    /\ scripts_db[last.script_id].approved

\* C21: approval is permanent and freezes the votes: in every step an
\* approved script stays in scripts_db and stays approved, its voters and
\* its vote count stay as they are, and a vote request on it is answered
\* 400 'Script already approved'.
C21_ApprovalPermanent ==
    [][\A id \in DOMAIN scripts_db :
          scripts_db[id].approved =>
              /\ id \in DOMAIN scripts_db'
              /\ scripts_db'[id].approved
              /\ scripts_db'[id].votes = scripts_db[id].votes
              /\ votes_db'[id] = votes_db[id]
              /\ (last'.op = "vote_script" /\ last'.script_id = id) =>
                    /\ last'.status = 400
                    /\ last'.detail = "Script already approved"]_vars

\* The voter who has not voted on the approved script votes on it and is
\* answered 'Script already approved'; the script keeps its ten voters.
C21_Witness ==
    /\ last.op = "vote_script"
    /\ last.status = 400
    /\ last.detail = "Script already approved"
    /\ last.voter \notin votes_db[last.script_id]
    /\ Cardinality(votes_db[last.script_id]) = ApprovalThreshold
    /\ scripts_db[last.script_id].approved
    /\ scripts_db[last.script_id].audioUrl # ""

\* C22 (as claimed): submit_audio answers 404 for an unknown script and 400
\* for a script not approved, changing nothing; a submission that follows
\* a successful one for the same script is answered 400 'Audio already
\* submitted' and leaves the stored audioUrl as it is; a script that is not
\* approved has no audio.
C22_AudioOnlyOnce ==
    /\ [](\A id \in DOMAIN scripts_db :
            scripts_db[id].audioUrl # "" => scripts_db[id].approved)
    /\ [][last'.op = "submit_audio" =>
            /\ last'.script_id \notin DOMAIN scripts_db =>
                  last'.status = 404 /\ UNCHANGED voiceVars
            /\ ( /\ last'.script_id \in DOMAIN scripts_db
                 /\ ~scripts_db[last'.script_id].approved ) =>
                  last'.status = 400 /\ UNCHANGED voiceVars
            /\ ( /\ last.op = "submit_audio"
                 /\ last.status = 200
                 /\ last.script_id = last'.script_id ) =>
                  /\ last'.status = 400
                  /\ last'.detail = "Audio already submitted"
                  /\ UNCHANGED voiceVars]_vars

(***************************************************************************)
(* nvidia-ai-engine/model_version_manager.py.  Floats are fixed-point      *)
(* numbers with Unit standing for 1.0; quality scores are in hundredths of *)
(* a point, as round(quality_score, 2) leaves them.                        *)
(***************************************************************************)
Unit == 10000

ModelNames == {"sdxl"}

VersionNames == {"1.0", "1.1", "2.0"}

Changelogs == {"faster"}

\* hash(version) % 100: str hashes are salted per process, so the value is
\* any of 0..99; the ends of the range.
HashMods == {0, 99}

\* _load_benchmarks()["image_generation"]
Benchmarks ==
    [min_psnr |-> 30 * Unit, min_ssim |-> (85 * Unit) \div 100,
     max_lpips |-> (15 * Unit) \div 100, max_fid |-> 20 * Unit,
     max_inference_time_ms |-> 5000 * Unit]

\* benchmark_model: the synthetic metrics, h = hash(version) % 100
benchmark_model(h, timestamp) ==
    LET base_quality == (85 * Unit) \div 100 + RoundDiv(h * Unit, 1000)
    IN  [psnr              |-> 32 * Unit + base_quality * 10,
         ssim              |-> (88 * Unit) \div 100
                                  + RoundDiv(base_quality, 10),
         lpips             |-> (15 * Unit) \div 100
                                  - RoundDiv(base_quality * 5, 100),
         fid               |-> 18 * Unit - base_quality * 5,
         inference_time_ms |-> 3500 * Unit - base_quality * 500,
         memory_usage_mb   |-> 2048 * Unit + base_quality * 512,
         timestamp         |-> timestamp]

\* calculate_quality_score, in hundredths of a point
calculate_quality_score(metrics) ==
    LET psnr_score  == Min(Unit, RoundDiv(metrics.psnr, 40))
        ssim_score  == metrics.ssim
        lpips_score == Unit - Min(Unit, RoundDiv(metrics.lpips * 10, 3))
        fid_score   == Unit - Min(Unit, RoundDiv(metrics.fid, 30))
        speed_score == Min(Unit,
                           RoundDiv(5000 * Unit,
                                    RoundDiv(metrics.inference_time_ms,
                                             Unit)))
    IN  RoundDiv(psnr_score * 25 + ssim_score * 25 + lpips_score * 25
                    + fid_score * 15 + speed_score * 10, 100)

\* meets_quality_threshold
meets_quality_threshold(metrics) ==
    /\ metrics.psnr >= Benchmarks.min_psnr
    /\ metrics.ssim >= Benchmarks.min_ssim
    /\ metrics.lpips <= Benchmarks.max_lpips
    /\ metrics.fid <= Benchmarks.max_fid
    /\ metrics.inference_time_ms <= Benchmarks.max_inference_time_ms

\* dict.get(key) for a dict whose values are strings
GetStr(dict, key) == IF key \in DOMAIN dict THEN dict[key] ELSE None

\* get_model_version: is the version recorded for the model
Recorded(vs, model_name, version) ==
    /\ model_name \in DOMAIN vs.models
    /\ version \in DOMAIN vs.models[model_name]

\* The decision logic of test_new_version: status, decision, reason
Decide(meets_threshold, quality_score, has_current, current_quality) ==
    IF ~meets_threshold
    THEN [status |-> "failed", decision |-> "reject",
          reason |-> "Does not meet minimum quality requirements"]
    ELSE IF has_current /\ current_quality # 0
            /\ quality_score < current_quality - 500
    THEN [status |-> "testing", decision |-> "a_b_test",
          reason |-> "Quality regression detected, requires A/B testing"]
    ELSE IF has_current /\ current_quality # 0
            /\ quality_score > current_quality + 1000
    THEN [status |-> "active", decision |-> "activate",
          reason |-> "Significant quality improvement, safe to deploy"]
    ELSE [status |-> "testing", decision |-> "a_b_test",
          reason |-> "Marginal improvement, run A/B test"]

\* _save_versions: json.dump(self.versions) to config_path
_save_versions(vs) == [exists |-> TRUE, content |-> vs]

\* _load_versions
_load_versions(file) ==
    IF file.exists THEN file.content
    ELSE [models |-> <<>>, active_versions |-> <<>>]

\* ModelVersionManager(): a process starts and loads the file
ModelVersionManager ==
    /\ UNCHANGED <<provenanceVars, connectionVars, voiceVars, daoVars,
                   config_file, clock, replaced>>
    /\ versions' = _load_versions(config_file)
    /\ last' = [op |-> "ModelVersionManager"]

\* test_new_version
test_new_version(model_name, version, changelog, h) ==
    /\ UNCHANGED <<provenanceVars, connectionVars, voiceVars, daoVars>>
    /\ clock + 2 <= MaxClock
    /\ LET metrics         == benchmark_model(h, clock + 1)
           quality_score   == calculate_quality_score(metrics)
           meets_threshold == meets_quality_threshold(metrics)
           current_version == GetStr(versions.active_versions, model_name)
           has_current     ==
               /\ current_version # None
               /\ Recorded(versions, model_name, current_version)
           current_quality ==
               IF has_current
               THEN versions.models[model_name][current_version].quality_score
               ELSE 0
           d   == Decide(meets_threshold, quality_score, has_current,
                         current_quality)
           old == IF model_name \in DOMAIN versions.models
                  THEN versions.models[model_name] ELSE <<>>
           rec == [version |-> version, release_date |-> clock + 2,
                   changelog |-> changelog, status |-> d.status,
                   quality_score |-> quality_score, metrics |-> metrics,
                   decision |-> d.decision, decision_reason |-> d.reason,
                   compared_to |-> current_version]
           new == [versions EXCEPT !.models =
                      (model_name :> ((version :> rec) @@ old)) @@ @]
       IN  /\ versions' = new
           /\ config_file' = _save_versions(new)
           /\ clock' = clock + 2
           /\ UNCHANGED replaced
           /\ last' = [op |-> "test_new_version", model |-> model_name,
                       version |-> version,
                       quality_score |-> quality_score,
                       decision |-> d.decision, reason |-> d.reason,
                       meets_threshold |-> meets_threshold]

\* The versions dict that activate_version leaves, activated at time now.
Activated(vs, model_name, version, now) ==
    LET previous_version == GetStr(vs.active_versions, model_name)
        act == (model_name :> version) @@ vs.active_versions
        m1  == IF Recorded(vs, model_name, version)
               THEN [vs.models EXCEPT ![model_name][version] =
                        [status |-> "active", activated_at |-> now]
                            @@ vs.models[model_name][version]]
               ELSE vs.models
        m2  == IF previous_version # None
                  /\ Recorded(vs, model_name, previous_version)
               THEN [m1 EXCEPT ![model_name][previous_version].status =
                        "deprecated"]
               ELSE m1
    IN  [models |-> m2, active_versions |-> act]

\* The version that was active immediately before the current one, once
\* activate_version has made version the current one.
Replaced(vs, hist, model_name, version) ==
    LET previous_version == GetStr(vs.active_versions, model_name)
    IN  IF previous_version # None /\ previous_version # version
        THEN (model_name :> previous_version) @@ hist
        ELSE hist

\* The time activate_version reads, if it reads it.
ActivationTicks(vs, model_name, version) ==
    IF Recorded(vs, model_name, version) THEN 1 ELSE 0

\* activate_version
activate_version(model_name, version) ==
    /\ UNCHANGED <<provenanceVars, connectionVars, voiceVars, daoVars>>
    /\ clock + ActivationTicks(versions, model_name, version) <= MaxClock
    /\ LET new == Activated(versions, model_name, version, clock + 1)
       IN  /\ versions' = new
           /\ config_file' = _save_versions(new)
           /\ clock' = clock + ActivationTicks(versions, model_name, version)
           /\ replaced' = Replaced(versions, replaced, model_name, version)
           /\ last' = [op |-> "activate_version", model |-> model_name,
                       active_version |-> version,
                       previous_version |->
                           GetStr(versions.active_versions, model_name),
                       status |-> "success"]

\* rollback_version: the deprecated version, other than the current one,
\* that comes first by release_date in descending order; None if there is
\* none.
RollbackTarget(vs, model_name, current_version) ==
    LET model_versions == IF model_name \in DOMAIN vs.models
                          THEN vs.models[model_name] ELSE <<>>
        cands == {ver \in DOMAIN model_versions :
                     /\ ver # current_version
                     /\ model_versions[ver].status = "deprecated"}
    IN  IF cands = {} THEN None
        ELSE CHOOSE ver \in cands :
                \A o \in cands : model_versions[o].release_date
                                    <= model_versions[ver].release_date

\* rollback_version
rollback_version(model_name) ==
    /\ UNCHANGED <<provenanceVars, connectionVars, voiceVars, daoVars>>
    /\ LET current_version  == GetStr(versions.active_versions, model_name)
           previous_version ==
               IF current_version = None THEN None
               ELSE RollbackTarget(versions, model_name, current_version)
       IN  IF current_version = None
           THEN /\ last' = [op |-> "rollback_version", model |-> model_name,
                            status |-> "error",
                            message |-> "No active version to rollback"]
                /\ UNCHANGED versionVars
           ELSE IF previous_version = None
           THEN /\ last' = [op |-> "rollback_version", model |-> model_name,
                            status |-> "error",
                            message |-> "No previous version available"]
                /\ UNCHANGED versionVars
           ELSE LET new == Activated(versions, model_name, previous_version,
                                     clock + 1)
                IN  /\ clock + 1 <= MaxClock
                    /\ versions' = new
                    /\ config_file' = _save_versions(new)
                    /\ clock' = clock + 1
                    /\ replaced' = Replaced(versions, replaced, model_name,
                                             previous_version)
                    /\ last' = [op |-> "rollback_version",
                                model |-> model_name,
                                active_version |-> previous_version,
                                previous_version |-> current_version,
                                status |-> "success"]

NextVersions ==
    \/ ModelVersionManager
    \/ \E model_name \in ModelNames, version \in VersionNames,
          changelog \in Changelogs, h \in HashMods :
          test_new_version(model_name, version, changelog, h)
    \/ \E model_name \in ModelNames, version \in VersionNames :
          activate_version(model_name, version)
    \/ \E model_name \in ModelNames : rollback_version(model_name)

SpecVersions == Init /\ [][NextVersions]_vars

\* The recorded status of a version, None if it is not recorded.
StatusOf(vs, model_name, version) ==
    IF Recorded(vs, model_name, version)
    THEN vs.models[model_name][version].status ELSE None

\* C23: after activate_version(model, v) returns, active_versions[model] is
\* v, v has status 'active' if it is recorded, and the previously active
\* version has status 'deprecated' if it is recorded and is not v itself;
\* this for every v, the already active one included.
C23_ActivateMarks ==
    [][last'.op = "activate_version" =>
          LET m == last'.model
              v == last'.active_version
              p == last'.previous_version
          IN  /\ GetStr(versions'.active_versions, m) = v
              /\ Recorded(versions', m, v) =>
                    StatusOf(versions', m, v) = "active"
              /\ (p # None /\ p # v /\ Recorded(versions', m, p)) =>
                    StatusOf(versions', m, p) = "deprecated"]_vars

\* The recorded versions of a model that have status 'active'.
ActiveRecorded(vs, model_name) ==
    {v \in DOMAIN vs.models[model_name] :
        vs.models[model_name][v].status = "active"}

\* C24: in every reachable state each model has at most one recorded version
\* with status 'active', and a recorded version has status 'active' if and
\* only if active_versions names it for that model.
C24_OneActive ==
    \A m \in DOMAIN versions.models :
       /\ Cardinality(ActiveRecorded(versions, m)) <= 1
       /\ \A v \in DOMAIN versions.models[m] :
             (versions.models[m][v].status = "active")
                <=> (GetStr(versions.active_versions, m) = v)

\* The versions rollback_version can choose from: recorded for the model,
\* other than the current one, with status 'deprecated'.
Deprecated(vs, model_name, current_version) ==
    IF model_name \in DOMAIN vs.models
    THEN {v \in DOMAIN vs.models[model_name] :
             /\ v # current_version
             /\ vs.models[model_name][v].status = "deprecated"}
    ELSE {}

\* C25: rollback_version(model), when the model has an active version and
\* at least one other version with status 'deprecated', makes active the
\* version that was active immediately before the current one and marks the
\* current one deprecated; otherwise it returns status 'error' and changes
\* no state.
C25_RollbackToPrevious ==
    [][last'.op = "rollback_version" =>
          LET m   == last'.model
              cur == GetStr(versions.active_versions, m)
          IN  IF cur = None \/ Deprecated(versions, m, cur) = {}
              THEN /\ last'.status = "error"
                   /\ UNCHANGED <<versions, config_file>>
              ELSE /\ last'.status = "success"
                   /\ GetStr(versions'.active_versions, m)
                         = GetStr(replaced, m)
                   /\ Recorded(versions, m, cur) =>
                         StatusOf(versions', m, cur) = "deprecated"]_vars

\* C26: in every reachable state the active version of a model is one that
\* test_new_version has recorded and that met the minimum quality
\* thresholds: its decision is not 'reject', its status is not 'failed'.
C26_ActiveWasTested ==
    \A m \in DOMAIN versions.active_versions :
       LET v == versions.active_versions[m]
       IN  /\ Recorded(versions, m, v)
           /\ versions.models[m][v].decision # "reject"
           /\ versions.models[m][v].status # "failed"
           /\ meets_quality_threshold(versions.models[m][v].metrics)

(***************************************************************************)
(* dao-voting/server.py: jobs and votes, on the tables of database.py      *)
(***************************************************************************)
\* The values str(uuid.uuid4()) returns
Uuids == {"u1", "u2"}

VoterWallets == {"0xA", "0xB"}

VoteValues == {"approve", "reject", "abstain"}

\* What the database does with the statements of one request: all succeed,
\* or the INSERT raises (connection lost, constraint of the table), or the
\* SELECT of the tally raises after the INSERT was committed.
DbOutcomes == {"ok", "store_vote_raises", "tally_votes_raises"}

ValidVote_any(vote) == TRUE

\* vote.vote in ['approve', 'reject']
ValidVote(vote) == vote \in {"approve", "reject"}

\* INSERT INTO dao_votes (job_id, voter_wallet, vote, reason)
store_vote(table, job_id, wallet, vote, reason) ==
    Append(table, [job_id |-> job_id, voter_wallet |-> wallet,
                   vote |-> vote, reason |-> reason])

\* COUNT(*) of the rows of a job with a vote value
CountVotes(table, job_id, vote) ==
    Cardinality({i \in 1..Len(table) :
                    table[i].job_id = job_id /\ table[i].vote = vote})

\* SELECT vote, COUNT(*) FROM dao_votes WHERE job_id = .. GROUP BY vote,
\* as the dict {vote: count}
tally_votes(table, job_id) ==
    LET present == {table[i].vote : i \in {k \in 1..Len(table) :
                                             table[k].job_id = job_id}}
    IN  [v \in present |-> CountVotes(table, job_id, v)] @@ <<>>

\* POST /api/jobs
submit_job(scene, format, wallet, job_id) ==
    /\ UNCHANGED <<clip_embeddings, known, connectionVars, voiceVars,
                   versionVars, daoVars>>
    /\ get_job_status(render_jobs, job_id) = NoJob
    /\ render_jobs' = store_job_metadata(render_jobs, job_id, wallet, scene,
                                         None, format, None, None, None)
    /\ last' = [op |-> "submit_job", status |-> 201, job_id |-> job_id]

\* GET /api/jobs/{job_id}
get_job(job_id) ==
    /\ UNCHANGED <<provenanceVars, connectionVars, voiceVars, versionVars,
                   daoVars>>
    /\ LET job == get_job_status(render_jobs, job_id)
       IN  last' = IF job = NoJob
                   THEN [op |-> "get_job", job_id |-> job_id,
                         status |-> 404, detail |-> "Job not found"]
                   ELSE [op |-> "get_job", job_id |-> job_id,
                         status |-> 200, body |-> job]

\* POST /api/vote
submit_vote(job_id, wallet, vote, reason, outcome) ==
    /\ UNCHANGED <<provenanceVars, connectionVars, voiceVars, versionVars>>
    /\ LET job == get_job_status(render_jobs, job_id)
           req == [op |-> "submit_vote", job_id |-> job_id,
                   wallet |-> wallet, vote |-> vote]
       IN  IF job = NoJob
           THEN /\ last' = req @@ [status |-> 404,
                                   detail |-> "Job not found"]
                /\ UNCHANGED dao_votes
           ELSE IF ~ValidVote(vote)
           THEN /\ last' = req @@
                       [status |-> 400,
                        detail |-> "Vote must be 'approve' or 'reject'"]
                /\ UNCHANGED dao_votes
           ELSE IF outcome = "store_vote_raises"
           THEN /\ last' = req @@ [status |-> 500,
                                   detail |-> "Failed to record vote: "]
                /\ UNCHANGED dao_votes
           ELSE /\ Len(dao_votes) < MaxVotes
                /\ dao_votes' = store_vote(dao_votes, job_id, wallet, vote,
                                           reason)
                /\ last' = IF outcome = "tally_votes_raises"
                           THEN req @@
                                [status |-> 500,
                                 detail |-> "Failed to record vote: "]
                           ELSE req @@
                                [status |-> 200,
                                 message |-> "Vote recorded",
                                 tally |-> tally_votes(dao_votes', job_id)]

NextDao ==
    \/ \E job_id \in Uuids : submit_job("Assets/Main.unity", "EXR", "0xA",
                                        job_id)
    \/ \E job_id \in Uuids : get_job(job_id)
    \/ \E job_id \in Uuids, wallet \in VoterWallets, vote \in VoteValues,
          outcome \in DbOutcomes :
          submit_vote(job_id, wallet, vote, None, outcome)

SpecDao == Init /\ [][NextDao]_vars

\* C27: submit_vote stores a vote only when the job exists and the vote is
\* 'approve' or 'reject'; an unknown job is answered 404 whatever the vote
\* value, any other vote value on a known job 400, and in both cases no row
\* is stored and no tally changes; on success exactly one row, the vote of
\* the request, is added and the returned tally is the tally that counts it.
C27_VoteValidated ==
    [][last'.op = "submit_vote" =>
          LET j      == last'.job_id
              known_ == get_job_status(render_jobs, j) # NoJob
              row    == [job_id |-> j, voter_wallet |-> last'.wallet,
                         vote |-> last'.vote, reason |-> None]
          IN  /\ ~known_ =>
                    /\ last'.status = 404
                    /\ dao_votes' = dao_votes
              /\ (known_ /\ last'.vote \notin {"approve", "reject"}) =>
                    /\ last'.status = 400
                    /\ dao_votes' = dao_votes
              /\ last'.status \in {404, 400} =>
                    \A u \in Uuids :
                       tally_votes(dao_votes', u) = tally_votes(dao_votes, u)
              /\ dao_votes' # dao_votes =>
                    /\ known_
                    /\ last'.vote \in {"approve", "reject"}
              /\ last'.status = 200 =>
                    /\ dao_votes' = Append(dao_votes, row)
                    /\ last'.tally = tally_votes(dao_votes', j)
                    /\ last'.tally[last'.vote]
                          = CountVotes(dao_votes, j, last'.vote) + 1]_vars

\* A vote is accepted on a job that already has votes of both values.
C27_Witness ==
    /\ last.op = "submit_vote"
    /\ last.status = 200
    /\ Len(dao_votes) = MaxVotes
    /\ DOMAIN last.tally = {"approve", "reject"}
    /\ last.tally[last.vote] >= 2

=============================================================================
